---- MODULE Spec2Model ----
(***************************************************************************)
(* Model of rust-query (src/src/main.rs): fixed-width columns kept as a    *)
(* raw file and a block-compressed file, the block-wise value iterator     *)
(* (BlockTypedReader / RawValuesIterator) and the three count queries of   *)
(* Table.                                                                  *)
(*                                                                         *)
(* A value is kept in its in-memory representation, the sequence of its    *)
(* size_of::<T>() bytes in native (little-endian) order: the code only     *)
(* ever copies values, reinterprets bytes as values and compares values    *)
(* with the null sentinel.                                                 *)
(***************************************************************************)
EXTENDS Integers, Sequences, FiniteSets, TLC

\* ------------------------------------------------------------------ bounds
\* Largest number of values in a column of the table (Spec SpecQuery).
MaxLen == 3
\* Largest number of values in the column the two free iterators read (Spec).
MaxIterLen == 2
\* A block of the decompressed stream holds at most this many i32 values.
MaxBlockValues == 2
\* next() is called at most this many more times after it first returned None.
MaxNone == 2
\* Largest n given to generate_random_column (SpecGen).
MaxGenLen == 3
\* Capacity of the generator's BufWriter, in bytes; larger than any value.
WriterCap == 16

\* --------------------------------------------------------- value encoding
SizeOfI32 == 4
SizeOfI64 == 8

Min(x, y) == IF x <= y THEN x ELSE y

\* raw_bytes(&val): the size bytes of a small non-negative integer, low byte first.
RECURSIVE raw_bytes(_, _)
raw_bytes(v, size) ==
    IF size = 0 THEN <<>> ELSE <<v % 256>> \o raw_bytes(v \div 256, size - 1)

\* Nullable::null_value(): i32::MIN / i64::MIN, i.e. only the sign bit set.
null_value(size) == [k \in 1..size |-> IF k = size THEN 128 ELSE 0]

\* Option<T>: None is the empty sequence, Some(v) the one-element sequence.
None == <<>>
Some(v) == <<v>>

\* The values the columns are filled with.
Int32Values == {null_value(SizeOfI32), raw_bytes(5, SizeOfI32)}
Int64Values == {null_value(SizeOfI64), raw_bytes(7, SizeOfI64), raw_bytes(9, SizeOfI64)}

\* What a read outside the current block can find in the bytes that follow the
\* buffered data: memory the block does not cover.
GarbageFill(size) == {null_value(size), [k \in 1..size |-> 0]}

\* The raw file: the values' bytes written one after the other.
RECURSIVE WriteValues(_)
WriteValues(vals) ==
    IF vals = <<>> THEN <<>> ELSE Head(vals) \o WriteValues(Tail(vals))

\* An encoder that is never flushed: the last, partial frame is not written.
compress_values_unflushed(raw, frame_len) ==
    [k \in 1..(Len(raw) \div frame_len) |->
        SubSeq(raw, (k - 1) * frame_len + 1, k * frame_len)]

\* The compressed file, as the frames its decoder hands out: the encoder is
\* fed the raw file and cuts it into frames of frame_len bytes (the last one
\* shorter); decoding the frames in order gives back the raw bytes.
compress_values(raw, frame_len) ==
    [k \in 1..((Len(raw) + frame_len - 1) \div frame_len) |->
        SubSeq(raw, (k - 1) * frame_len + 1, Min(k * frame_len, Len(raw)))]

\* ------------------------------------------------------------------ Column
NewColumn(raw, frames) == [raw_mmap |-> raw, compressed_mmap |-> frames]

ColumnLen(col, size) == Len(col.raw_mmap) \div size

raw_values(col, size) ==
    [k \in 1..ColumnLen(col, size) |->
        SubSeq(col.raw_mmap, (k - 1) * size + 1, k * size)]

\* ---------------------------------------------- BufReader over the decoder
\* frames: the compressed source; frame: how many frames were decoded so far;
\* buf[1..Len(buf)]: the buffered bytes; pos: how many of them are consumed.
NewBufReader(frames) == [frames |-> frames, frame |-> 0, buf |-> <<>>, pos |-> 0]

\* consume() that forgets to advance.
consume_nothing(rd, amt) == rd

consume(rd, amt) == [rd EXCEPT !.pos = Min(rd.pos + amt, Len(rd.buf))]

\* A reader that starts over once it has reported the end of the stream.
fill_buf_rewinding(rd) ==
    IF rd.pos < Len(rd.buf) THEN rd
    ELSE IF rd.frame < Len(rd.frames)
         THEN [rd EXCEPT !.buf = rd.frames[rd.frame + 1], !.pos = 0,
                         !.frame = rd.frame + 1]
         ELSE [rd EXCEPT !.buf = <<>>, !.pos = 0, !.frame = 0]

\* fill_buf(): refills the buffer from the decoder when all of it is consumed;
\* at the end of the stream the buffer stays empty.
fill_buf(rd) ==
    IF rd.pos < Len(rd.buf) THEN rd
    ELSE IF rd.frame < Len(rd.frames)
         THEN [rd EXCEPT !.buf = rd.frames[rd.frame + 1], !.pos = 0,
                         !.frame = rd.frame + 1]
         ELSE [rd EXCEPT !.buf = <<>>, !.pos = 0]

\* The slice fill_buf() returns: the unconsumed part of the buffer.
buffer(rd) == SubSeq(rd.buf, rd.pos + 1, Len(rd.buf))

\* -------------------------------------------------------- BlockTypedReader
NewBlockTypedReader(rd) == [reader |-> rd, bytes_to_consume |-> 0]

\* next_block without the end-of-stream arm: an empty buffer is a block too.
next_block_no_eof(btr, size) ==
    LET rd  == fill_buf(consume(btr.reader, btr.bytes_to_consume))
        n   == Len(buffer(rd))
    IN  [reader |-> [reader |-> rd, bytes_to_consume |-> n],
         block  |-> Some([bytes |-> n, len |-> n \div size])]

\* next_block(): block is None at the end of the stream, else Some of the
\* typed slice, described by its byte length and its length in values.
next_block(btr, size) ==
    LET rd  == fill_buf(consume(btr.reader, btr.bytes_to_consume))
        n   == Len(buffer(rd))
    IN  [reader |-> [reader |-> rd, bytes_to_consume |-> n],
         block  |-> IF n = 0 THEN None
                    ELSE Some([bytes |-> n, len |-> n \div size])]

\* ------------------------------------------------------- RawValuesIterator
NullPtr == 0 - 1

NewRawValuesIterator(rd, size) ==
    [reader |-> NewBlockTypedReader(rd), next_value_ptr |-> NullPtr,
     remaining_values |-> 0, size |-> size]

compressed_values_iterator(col, size) ==
    NewRawValuesIterator(NewBufReader(col.compressed_mmap), size)

\* *next_value_ptr: the value at position ptr of the current block.  Inside
\* the typed slice it is the slice's element; at or past its end the read
\* leaves the slice: it sees what is left of the buffered bytes and then
\* whatever follows them (fill).
Deref(it, fill) ==
    LET buf  == buffer(it.reader.reader)
        base == it.next_value_ptr * it.size
    IN  [k \in 1..it.size |->
            IF base + k <= Len(buf) THEN buf[base + k] ELSE fill[k]]

\* RawValuesIterator::next(): the iterator after the call, the value returned
\* and what the call did (refill: it asked for a block; blk_bytes / blk_len:
\* byte and value length of the block the value was read from; ptr: the
\* position read).
IterNext(it, fill) ==
    IF it.remaining_values = 0
    THEN LET nb == next_block(it.reader, it.size)
         IN  IF nb.block = None
             THEN [it |-> [it EXCEPT !.reader = nb.reader], res |-> None,
                   refill |-> TRUE, blk_bytes |-> 0, blk_len |-> 0, ptr |-> NullPtr]
             ELSE LET blk == nb.block[1]
                      it2 == [it EXCEPT !.reader = nb.reader,
                                        !.remaining_values = blk.len,
                                        !.next_value_ptr = 0]
                  IN  [it |-> it2, res |-> Some(Deref(it2, fill)),
                       refill |-> TRUE, blk_bytes |-> blk.bytes,
                       blk_len |-> blk.len, ptr |-> 0]
    ELSE LET it2 == [it EXCEPT !.remaining_values = it.remaining_values - 1,
                               !.next_value_ptr = it.next_value_ptr + 1]
             n   == Len(buffer(it.reader.reader))
         IN  [it |-> it2, res |-> Some(Deref(it2, fill)),
              refill |-> FALSE, blk_bytes |-> n, blk_len |-> n \div it.size,
              ptr |-> it2.next_value_ptr]

\* ------------------------------------------------------------------- state
VARIABLES
    int32_column,   \* Table.int32_column: [raw_mmap, compressed_mmap]
    int64_column,   \* Table.int64_column
    iters,          \* the two iterators in use: Zip's a and b
    out,            \* the values the driver of Spec has collected from each iterator
    last,           \* what each iterator's latest next() call did
    nones,          \* how many next() calls returned None, per iterator
    pc,             \* where main() is: query1, query2, query3, done
    i,              \* query1's loop index
    cnt1, cnt2, cnt3, \* the counts the three queries print
    fs,             \* the two files of the generated column: raw and compressed
    gen,            \* generate_random_column's arguments, locals and result
    bbr             \* a BufBlockReader, its latest result and the blocks it gave

vars == <<int32_column, int64_column, iters, out, last, nones, pc, i,
          cnt1, cnt2, cnt3, fs, gen, bbr>>

\* A file that does not exist, and a file holding content.
Absent == [exists |-> FALSE, content |-> <<>>]
FileOf(content) == [exists |-> TRUE, content |-> content]

\* The parts of the state a specification does not use keep these values.
NoFiles == [raw |-> Absent, compressed |-> Absent]
NoGenerator == [size |-> 0]
NoBlockReader == [calls |-> 0]

IterIds == {"a", "b"}

NoCall == [res |-> None, refill |-> FALSE, blk_bytes |-> 0, blk_len |-> 0,
           ptr |-> NullPtr]

CallRecord(r) == [res |-> r.res, refill |-> r.refill, blk_bytes |-> r.blk_bytes,
                  blk_len |-> r.blk_len, ptr |-> r.ptr]

\* Columns of n values each drawn from vals.
ColumnsOf(vals, maxlen) == UNION {[1..n -> vals] : n \in 0..maxlen}

\* Frame lengths the decoder may deliver: from one byte short of an i32 up to
\* MaxBlockValues i32 values.
FrameLens == (SizeOfI32 - 1)..(MaxBlockValues * SizeOfI32)

\* ------------------------------------------------------- Spec: iterators
\* Two RawValuesIterator<_, i32> over the bytes of one column: a comes from
\* compressed_values_iterator(); b reads the same bytes from a block source
\* of its own (the same frames when fb = fa: a second call on the Column).
Init ==
    \E vals \in ColumnsOf(Int32Values, MaxIterLen), fa \in FrameLens, fb \in FrameLens :
        LET raw == WriteValues(vals) IN
        /\ int32_column = NewColumn(raw, compress_values(raw, fa))
        /\ int64_column = NewColumn(<<>>, <<>>)
        /\ iters = [id \in IterIds |->
                     IF id = "a"
                     THEN compressed_values_iterator(int32_column, SizeOfI32)
                     ELSE NewRawValuesIterator(
                              NewBufReader(compress_values(raw, fb)), SizeOfI32)]
        /\ out = [id \in IterIds |-> <<>>]
        /\ last = [id \in IterIds |-> NoCall]
        /\ nones = [id \in IterIds |-> 0]
        /\ pc = "iterate"
        /\ i = 0
        /\ cnt1 = 0 /\ cnt2 = 0 /\ cnt3 = 0
        /\ fs = NoFiles /\ gen = NoGenerator /\ bbr = NoBlockReader

\* One next() call on iterator id by its owner.
CallNext(id) ==
    /\ pc = "iterate"
    /\ nones[id] <= MaxNone
    /\ \E fill \in GarbageFill(iters[id].size) :
        LET r == IterNext(iters[id], fill) IN
        /\ iters' = [iters EXCEPT ![id] = r.it]
        /\ last' = [last EXCEPT ![id] = CallRecord(r)]
        /\ out' = [out EXCEPT ![id] = IF r.res = None THEN @ ELSE Append(@, r.res[1])]
        /\ nones' = [nones EXCEPT ![id] = IF r.res = None THEN @ + 1 ELSE @]
    /\ UNCHANGED <<fs, gen, bbr>>
    /\ UNCHANGED <<int32_column, int64_column, pc, i, cnt1, cnt2, cnt3>>

Next == \E id \in IterIds : CallNext(id)

Spec == Init /\ [][Next]_vars

\* -------------------------------------------------- SpecQuery: the Table
\* `if int32 == null { continue } else if int64 == null { continue }; cnt += 1`
\* with the two tests joined the wrong way round.
Query1CountsEither(int32, int64) ==
    int32 # null_value(SizeOfI32) \/ int64 # null_value(SizeOfI64)

\* query1's loop body: TRUE when the position is counted.
Query1Counts(int32, int64) ==
    /\ int32 # null_value(SizeOfI32)
    /\ int64 # null_value(SizeOfI64)

\* The i64 value v, given by its bytes, is greater than 100.
Int64Above100(v) ==
    /\ v[SizeOfI64] < 128
    /\ \/ \E k \in 2..SizeOfI64 : v[k] # 0
       \/ v[1] > 100

\* The filter the comment of query2 announces: int32 not null, int64 > 100.
FilterAbove100(v0, v1) ==
    v0 # null_value(SizeOfI32) /\ Int64Above100(v1)

\* The filter closure of query2 and query3.
FilterNonNull(v0, v1) ==
    v0 # null_value(SizeOfI32) /\ v1 # null_value(SizeOfI64)

\* a.iter().zip(b.iter()).filter(..).count() over two slices.
RECURSIVE ZipFilterCount(_, _)
ZipFilterCount(s, t) ==
    IF s = <<>> \/ t = <<>> THEN 0
    ELSE (IF FilterNonNull(Head(s), Head(t)) THEN 1 ELSE 0)
         + ZipFilterCount(Tail(s), Tail(t))

\* Table::len(): the length of the int32 column.
TableLen == ColumnLen(int32_column, SizeOfI32)

\* main(): a table of two columns of n values each, both compressed by the
\* same encoder; then query1, query2, query3.
InitQuery ==
    \E n \in 0..MaxLen, f \in FrameLens :
      \E v32 \in [1..n -> Int32Values], v64 \in [1..n -> Int64Values] :
        LET raw32 == WriteValues(v32)
            raw64 == WriteValues(v64)
        IN
        /\ int32_column = NewColumn(raw32, compress_values(raw32, f))
        /\ int64_column = NewColumn(raw64, compress_values(raw64, f))
        /\ iters = [id \in {} |-> NoCall]
        /\ out = [id \in IterIds |-> <<>>]
        /\ last = [id \in IterIds |-> NoCall]
        /\ nones = [id \in IterIds |-> 0]
        /\ pc = "query1"
        /\ i = 0
        /\ cnt1 = 0 /\ cnt2 = 0 /\ cnt3 = 0
        /\ fs = NoFiles /\ gen = NoGenerator /\ bbr = NoBlockReader

\* One iteration of `for i in 0..n` in query1; an index past the end of a
\* slice panics.
Query1Step ==
    /\ pc = "query1"
    /\ i < TableLen
    /\ LET int32_values == raw_values(int32_column, SizeOfI32)
           int64_values == raw_values(int64_column, SizeOfI64)
       IN  IF i + 1 > Len(int32_values) \/ i + 1 > Len(int64_values)
           THEN /\ pc' = "panic"
                /\ UNCHANGED <<i, cnt1>>
           ELSE /\ cnt1' = IF Query1Counts(int32_values[i + 1], int64_values[i + 1])
                           THEN cnt1 + 1 ELSE cnt1
                /\ i' = i + 1
                /\ pc' = pc
    /\ UNCHANGED <<fs, gen, bbr>>
    /\ UNCHANGED <<int32_column, int64_column, iters, out, last, nones, cnt2, cnt3>>

\* The loop of query1 is over: the count is printed.
Query1Print ==
    /\ pc = "query1"
    /\ i >= TableLen
    /\ pc' = "query2"
    /\ UNCHANGED <<fs, gen, bbr>>
    /\ UNCHANGED <<int32_column, int64_column, iters, out, last, nones, i,
                   cnt1, cnt2, cnt3>>

\* query2: zip of the two whole-buffer views, filtered and counted.
Query2 ==
    /\ pc = "query2"
    /\ cnt2' = ZipFilterCount(raw_values(int32_column, SizeOfI32),
                              raw_values(int64_column, SizeOfI64))
    /\ pc' = "query3"
    /\ UNCHANGED <<fs, gen, bbr>>
    /\ UNCHANGED <<int32_column, int64_column, iters, out, last, nones, i,
                   cnt1, cnt3>>

\* query3 builds the zip of the two compressed_values_iterator().
Query3Start ==
    /\ pc = "query3"
    /\ iters' = [id \in IterIds |->
                  IF id = "a"
                  THEN compressed_values_iterator(int32_column, SizeOfI32)
                  ELSE compressed_values_iterator(int64_column, SizeOfI64)]
    /\ pc' = "zip"
    /\ UNCHANGED <<fs, gen, bbr>>
    /\ UNCHANGED <<int32_column, int64_column, out, last, nones, i,
                   cnt1, cnt2, cnt3>>

\* One Zip::next() pulled by count(): a.next(), and b.next() only when a
\* gave a value; the pair is counted when the filter accepts it; the first
\* None ends the count.
Query3Step ==
    /\ pc = "zip"
    /\ \E fa \in GarbageFill(SizeOfI32), fb \in GarbageFill(SizeOfI64) :
        LET ra == IterNext(iters["a"], fa)
            rb == IterNext(iters["b"], fb)
        IN  IF ra.res = None
            THEN /\ iters' = [iters EXCEPT !["a"] = ra.it]
                 /\ last' = [last EXCEPT !["a"] = CallRecord(ra)]
                 /\ nones' = [nones EXCEPT !["a"] = @ + 1]
                 /\ pc' = "done"
                 /\ cnt3' = cnt3
            ELSE /\ iters' = [iters EXCEPT !["a"] = ra.it, !["b"] = rb.it]
                 /\ last' = [last EXCEPT !["a"] = CallRecord(ra),
                                         !["b"] = CallRecord(rb)]
                 /\ nones' = [nones EXCEPT !["b"] = IF rb.res = None THEN @ + 1 ELSE @]
                 /\ pc' = IF rb.res = None THEN "done" ELSE "zip"
                 /\ cnt3' = IF rb.res # None /\ FilterNonNull(ra.res[1], rb.res[1])
                            THEN cnt3 + 1 ELSE cnt3
    /\ UNCHANGED <<fs, gen, bbr>>
    /\ UNCHANGED <<int32_column, int64_column, out, i, cnt1, cnt2>>

NextQuery == Query1Step \/ Query1Print \/ Query2 \/ Query3Start \/ Query3Step

SpecQuery == InitQuery /\ [][NextQuery]_vars

\* ------------------------------------------------------------------ claims
\* An iterator is exhausted once one of its next() calls returned None.
Exhausted(id) == nones[id] >= 1

\* The value the column holds at position k (1-based) of its raw bytes.
ColumnValue(k) ==
    SubSeq(int32_column.raw_mmap, (k - 1) * SizeOfI32 + 1, k * SizeOfI32)

\* The block source of iterator id delivers blocks of exactly one value.
SingleValueBlocks(id) ==
    \A k \in DOMAIN iters[id].reader.reader.frames :
        Len(iters[id].reader.reader.frames[k]) = iters[id].size

\* The block source of iterator id delivers blocks of whole values only.
WholeValueBlocks(id) ==
    \A k \in DOMAIN iters[id].reader.reader.frames :
        Len(iters[id].reader.reader.frames[k]) % iters[id].size = 0

\* Both iterators read the Column's own compressed source.
SameColumnSource ==
    \A id \in IterIds : iters[id].reader.reader.frames = int32_column.compressed_mmap

\* The positions query1 is meant to count: both values present.
BothNonNull ==
    {k \in 1..ColumnLen(int32_column, SizeOfI32) :
        /\ raw_values(int32_column, SizeOfI32)[k] # null_value(SizeOfI32)
        /\ k <= ColumnLen(int64_column, SizeOfI64)
        /\ raw_values(int64_column, SizeOfI64)[k] # null_value(SizeOfI64)}

\* C1 (SpecQuery): once the three queries have run, the count of query3 (zip
\* of the two compressed iterators) equals the count of query1 (indexed loop
\* over the raw views).
C1_CrossModeEquivalence == pc = "done" => cnt3 = cnt1

\* C2 (Spec): when compressed_values_iterator has returned its first None, the
\* values it yielded are exactly raw_values(): n values, the i-th equal to
\* raw_values()[i].
C2_RoundTrip ==
    Exhausted("a") => out["a"] = raw_values(int32_column, SizeOfI32)

\* C3 (Spec): over the same bytes, an iterator fed blocks of exactly one value
\* width and an iterator fed blocks of k value widths yield the same sequence.
C3_BlockBoundaryRobustness ==
    (SingleValueBlocks("a") /\ WholeValueBlocks("b")
        /\ Exhausted("a") /\ Exhausted("b"))
    => out["a"] = out["b"]

\* C4 (Spec): every value next() yields is read at a position inside the
\* current block: position < the block's length in values.
C4_CursorInsideBlock ==
    \A id \in IterIds :
        last[id].res # None => last[id].ptr < last[id].blk_len

\* C5 (Spec): once next() has returned None, every later next() on that
\* iterator returns None and yields nothing more.
C5_ExhaustionIsTerminal ==
    [][\A id \in IterIds :
          Exhausted(id) => (out'[id] = out[id] /\ last'[id].res = None)]_vars

C5_Witness ==
    /\ nones["a"] >= 2
    /\ out["a"] # <<>>

\* C6 (Spec): a refill that returns a non-empty byte block holding zero typed
\* values makes the call yield no value from that block.
C6_ZeroLengthBlockGuard ==
    \A id \in IterIds :
        ~(/\ last[id].refill
          /\ last[id].blk_bytes > 0
          /\ last[id].blk_len = 0
          /\ last[id].res # None)

\* C7 (Spec): for every cut of the stream into blocks, the i-th value yielded
\* is the size bytes at stream offset i*size, and a refill never marks a
\* partial trailing value as consumed.
C7_NoStraddleNoLoss ==
    \A id \in IterIds :
        /\ \A k \in 1..Len(out[id]) :
              /\ k <= ColumnLen(int32_column, SizeOfI32)
              /\ out[id][k] = ColumnValue(k)
        /\ iters[id].reader.bytes_to_consume % iters[id].size = 0

\* C8 (Spec): two iterators obtained from the same Column each yield the
\* Column's full sequence in order, however their calls are interleaved.
C8_Restartability ==
    (SameColumnSource /\ Exhausted("a") /\ Exhausted("b"))
    => /\ out["a"] = raw_values(int32_column, SizeOfI32)
       /\ out["b"] = raw_values(int32_column, SizeOfI32)

\* The table's columns hold no value at all.
EmptyTable == int32_column.raw_mmap = <<>> /\ int64_column.raw_mmap = <<>>

ScenarioTable ==
    /\ raw_values(int32_column, SizeOfI32)
         = <<null_value(SizeOfI32), raw_bytes(5, SizeOfI32), null_value(SizeOfI32)>>
    /\ raw_values(int64_column, SizeOfI64)
         = <<raw_bytes(7, SizeOfI64), null_value(SizeOfI64), raw_bytes(9, SizeOfI64)>>

\* C10 (SpecQuery): when query1 has finished, its count is the number of
\* positions where the i32 value is not i32::MIN and the i64 value is not
\* i64::MIN; for the scenario table it is 0.
C10_CountNonNullAnd ==
    pc \in {"query2", "query3", "zip", "done"} =>
        /\ cnt1 = Cardinality(BothNonNull)
        /\ ScenarioTable => cnt1 = 0

C10_Witness == ScenarioTable /\ pc = "done" /\ cnt1 = 0

\* ------------------------------------------- SpecFinite: draining an iterator
\* A consumer such as count(): it calls next() until the first None and
\* keeps none of the values.
PullNext ==
    /\ pc = "iterate"
    /\ nones["a"] = 0
    /\ \E fill \in GarbageFill(iters["a"].size) :
        LET r == IterNext(iters["a"], fill) IN
        /\ iters' = [iters EXCEPT !["a"] = r.it]
        /\ last' = [last EXCEPT !["a"] = CallRecord(r)]
        /\ nones' = [nones EXCEPT !["a"] = IF r.res = None THEN @ + 1 ELSE @]
    /\ UNCHANGED <<fs, gen, bbr>>
    /\ UNCHANGED <<int32_column, int64_column, out, pc, i, cnt1, cnt2, cnt3>>

\* The consumer's loop keeps calling next() as long as it got a value.
SpecFinite == Init /\ [][PullNext]_vars /\ WF_vars(PullNext)

\* ------------------------------------------------ SpecBlocks: BufBlockReader
NewBufBlockReader(rd) == [reader |-> rd, bytes_to_consume |-> 0]

\* BufBlockReader::next_block(): the reader after the call and the Option it
\* returns.
buf_next_block(b) ==
    LET rd == fill_buf(consume(b.reader, b.bytes_to_consume))
    IN  [reader |-> [reader |-> rd, bytes_to_consume |-> Len(buffer(rd))],
         block  |-> Some(buffer(rd))]

\* A BufBlockReader over a finite reader that delivers the bytes of a column
\* in pieces of f bytes.
InitBlocks ==
    \E vals \in ColumnsOf(Int32Values, MaxIterLen), f \in FrameLens :
        LET raw == WriteValues(vals) IN
        /\ bbr = [reader |-> NewBufBlockReader(NewBufReader(compress_values(raw, f))),
                  stream |-> raw, last |-> None, given |-> <<>>,
                  calls |-> 0, empties |-> 0]
        /\ int32_column = NewColumn(<<>>, <<>>)
        /\ int64_column = NewColumn(<<>>, <<>>)
        /\ iters = [id \in {} |-> NoCall]
        /\ out = [id \in IterIds |-> <<>>]
        /\ last = [id \in IterIds |-> NoCall]
        /\ nones = [id \in IterIds |-> 0]
        /\ pc = "blocks"
        /\ i = 0
        /\ cnt1 = 0 /\ cnt2 = 0 /\ cnt3 = 0
        /\ fs = NoFiles /\ gen = NoGenerator

\* One next_block() call by a consumer that pulls blocks; the consumer is
\* followed for MaxNone more calls after the stream is used up.
BufBlockNext ==
    /\ pc = "blocks"
    /\ bbr.empties <= MaxNone
    /\ LET r == buf_next_block(bbr.reader) IN
       bbr' = [bbr EXCEPT !.reader = r.reader,
                          !.last = r.block,
                          !.given = IF r.block = None THEN @ ELSE @ \o r.block[1],
                          !.calls = @ + 1,
                          !.empties = IF r.block = None \/ r.block[1] = <<>>
                                      THEN @ + 1 ELSE @]
    /\ UNCHANGED <<fs, gen>>
    /\ UNCHANGED <<int32_column, int64_column, iters, out, last, nones, pc, i,
                   cnt1, cnt2, cnt3>>

SpecBlocks == InitBlocks /\ [][BufBlockNext]_vars

\* ------------------------------------------------------- claims C15 - C18
\* C15 (SpecFinite): over a finite stream cut into non-empty blocks, a
\* consumer that keeps calling next() eventually gets None.
C15_IteratorIsFinite == <>(nones["a"] >= 1)

C15_Witness ==
    /\ nones["a"] = 1
    /\ iters["a"].reader.reader.frame >= 2

\* C16 (SpecBlocks): the blocks given so far are the stream's bytes in
\* order, and once the whole stream has been given the next call returns None.
C16_BlockSourceSignalsEnd ==
    /\ bbr.given = SubSeq(bbr.stream, 1, Len(bbr.given))
    /\ (bbr.calls >= 1 /\ bbr.empties >= 1) => bbr.last = None

\* The positions the comment of query2 says it counts.
NonNullAndAbove100 ==
    {k \in 1..Min(ColumnLen(int32_column, SizeOfI32), ColumnLen(int64_column, SizeOfI64)) :
        /\ raw_values(int32_column, SizeOfI32)[k] # null_value(SizeOfI32)
        /\ Int64Above100(raw_values(int64_column, SizeOfI64)[k])}

\* C17 (SpecQuery): when query2 has run, its count is the number of positions
\* where the int32 value is not null and the int64 value is greater than 100.
C17_Query2CountsAbove100 ==
    pc \in {"query3", "zip", "done"} => cnt2 = Cardinality(NonNullAndAbove100)

GenModulusI32 == 1000
GenModulusI64 == 1000000

GenModulus(size) == IF size = SizeOfI32 THEN GenModulusI32 ELSE GenModulusI64

\* The unsigned number that the bytes of bits from position k on spell (low
\* byte first), modulo m.
RECURSIVE UnsignedMod(_, _, _)
UnsignedMod(bits, k, m) ==
    IF k > Len(bits) THEN 0
    ELSE (bits[k] + 256 * UnsignedMod(bits, k + 1, m)) % m

\* 2^(8 * size) modulo m.
RECURSIVE PowerMod(_, _)
PowerMod(size, m) == IF size = 0 THEN 1 % m ELSE (256 * PowerMod(size - 1, m)) % m

\* (bits as iN) % m, with Rust's remainder: the sign of the dividend.
SignedRem(bits, m) ==
    LET u == UnsignedMod(bits, 1, m) IN
    IF bits[Len(bits)] < 128 THEN u
    ELSE 0 - ((PowerMod(Len(bits), m) + m - u) % m)

\* RandomGenerator::generate_next(): (rng.next_uN() as iN) % m, as bytes.
generate_next(bits, m) == raw_bytes(SignedRem(bits, m), Len(bits))

\* Outputs of rng.next_u32() / next_u64() the model draws from: the bit
\* pattern of iN::MIN, of -1, of the largest iN and of m + 5.
RngOutputs(size) ==
    {null_value(size),
     [k \in 1..size |-> 255],
     [k \in 1..size |-> IF k = size THEN 127 ELSE 255],
     raw_bytes(GenModulus(size) + 5, size)}

\* null_probability: 0, strictly between 0 and 1, or 1; rng.next_f32() lies
\* in [0, 1).
NullProbabilities == {"zero", "between", "one"}

\* The values one iteration of the write loop can produce.
LoopValues(size, p) ==
    (IF p # "zero"
     THEN {[branch |-> "null", val |-> null_value(size)]} ELSE {})
    \cup
    (IF p # "one"
     THEN {[branch |-> "random", val |-> generate_next(bits, GenModulus(size))] :
              bits \in RngOutputs(size)}
     ELSE {})

\* Reading a compressed file back: the frames' bytes one after the other.
RECURSIVE Decompress(_)
Decompress(frames) ==
    IF frames = <<>> THEN <<>> ELSE Head(frames) \o Decompress(Tail(frames))

\* What a raw file left by an earlier run holds.
OldRawContent(size) == raw_bytes(9, size)

\* generate_random_column(n, null_probability) is called on a generator of
\* i32 or i64 values; the raw file may exist already.
InitGen ==
    \E size \in {SizeOfI32, SizeOfI64}, n \in 0..MaxGenLen, p \in NullProbabilities,
       f \in FrameLens, old \in BOOLEAN :
        /\ fs = [raw |-> IF old THEN FileOf(OldRawContent(size)) ELSE Absent,
                 compressed |-> Absent]
        /\ gen = [size |-> size, n |-> n, p |-> p, frame_len |-> f,
                  pre_raw |-> fs.raw, i |-> 0, writer |-> <<>>,
                  writer_open |-> FALSE, draws |-> <<>>, null_draws |-> 0,
                  failed |-> FALSE, result |-> "running",
                  column |-> NewColumn(<<>>, <<>>)]
        /\ pc = "create"
        /\ bbr = NoBlockReader
        /\ int32_column = NewColumn(<<>>, <<>>)
        /\ int64_column = NewColumn(<<>>, <<>>)
        /\ iters = [id \in {} |-> NoCall]
        /\ out = [id \in IterIds |-> <<>>]
        /\ last = [id \in IterIds |-> NoCall]
        /\ nones = [id \in IterIds |-> 0]
        /\ i = 0
        /\ cnt1 = 0 /\ cnt2 = 0 /\ cnt3 = 0

GenFrame == UNCHANGED <<int32_column, int64_column, iters, out, last, nones,
                        i, cnt1, cnt2, cnt3, bbr>>

\* BufWriter::new(try!(File::create(filename))): creates the file or
\* truncates the one that is there; a failure is returned.
GenCreate ==
    /\ pc = "create"
    /\ \E ok \in BOOLEAN :
        IF ok
        THEN /\ fs' = [fs EXCEPT !.raw = FileOf(<<>>)]
             /\ gen' = [gen EXCEPT !.writer_open = TRUE]
             /\ pc' = "loop"
        ELSE /\ gen' = [gen EXCEPT !.failed = TRUE, !.result = "err"]
             /\ pc' = "returned"
             /\ fs' = fs
    /\ GenFrame

\* One iteration of `for _ in 0..n`: the value is the sentinel or the
\* generator's next value, and writer.write(..).expect(..) buffers it; when
\* the buffer cannot take it the BufWriter first writes its buffer to the
\* file, and a failure of that write panics.
GenWrite ==
    /\ pc = "loop"
    /\ gen.i < gen.n
    /\ \E d \in LoopValues(gen.size, gen.p), ok \in BOOLEAN :
        LET counted == [gen EXCEPT !.i = @ + 1,
                                   !.draws = Append(@, d),
                                   !.null_draws = IF d.branch = "null" THEN @ + 1 ELSE @]
        IN  IF Len(gen.writer) + gen.size <= WriterCap
            THEN /\ gen' = [counted EXCEPT !.writer = @ \o d.val]
                 /\ fs' = fs
                 /\ pc' = pc
            ELSE IF ok
                 THEN /\ fs' = [fs EXCEPT !.raw.content = @ \o gen.writer]
                      /\ gen' = [counted EXCEPT !.writer = d.val]
                      /\ pc' = pc
                 ELSE /\ gen' = [counted EXCEPT !.failed = TRUE, !.result = "panic"]
                      /\ fs' = fs
                      /\ pc' = "panic"
    /\ GenFrame

\* The end of the block drops the writer: BufWriter's destructor writes the
\* buffer to the file and ignores a failure; the file is closed.
GenDropWriter ==
    /\ pc = "loop"
    /\ gen.i = gen.n
    /\ \E ok \in BOOLEAN :
        IF ok \/ gen.writer = <<>>
        THEN /\ fs' = [fs EXCEPT !.raw.content = @ \o gen.writer]
             /\ gen' = [gen EXCEPT !.writer = <<>>, !.writer_open = FALSE]
        ELSE /\ fs' = fs
             /\ gen' = [gen EXCEPT !.writer = <<>>, !.writer_open = FALSE,
                                   !.failed = TRUE]
    /\ pc' = "compress"
    /\ GenFrame

\* try!(self.compress_values()): opens the raw file, creates the compressed
\* file and copies the one into the encoder; each failure is returned.
GenCompress ==
    /\ pc = "compress"
    /\ LET frames == compress_values(fs.raw.content, gen.frame_len) IN
       \/ /\ fs' = [fs EXCEPT !.compressed = FileOf(frames)]
          /\ gen' = gen
          /\ pc' = "open"
       \/ /\ \E created \in BOOLEAN, k \in 0..Len(frames) :
               /\ created \/ k = 0
               /\ fs' = IF created
                        THEN [fs EXCEPT !.compressed = FileOf(SubSeq(frames, 1, k))]
                        ELSE fs
          /\ gen' = [gen EXCEPT !.failed = TRUE, !.result = "err"]
          /\ pc' = "returned"
    /\ GenFrame

\* Ok(Column::new(..)): maps the two files; a failure of either mapping
\* panics (expect).
GenOpen ==
    /\ pc = "open"
    /\ \E ok \in BOOLEAN :
        IF ok
        THEN /\ gen' = [gen EXCEPT !.column = NewColumn(fs.raw.content,
                                                        fs.compressed.content),
                                   !.result = "ok"]
             /\ pc' = "returned"
        ELSE /\ gen' = [gen EXCEPT !.failed = TRUE, !.result = "panic"]
             /\ pc' = "panic"
    /\ fs' = fs
    /\ GenFrame

NextGen == GenCreate \/ GenWrite \/ GenDropWriter \/ GenCompress \/ GenOpen

SpecGen == InitGen /\ [][NextGen]_vars

\* ------------------------------------------------ SpecGen: claims' helpers
\* The bytes the loop's draws spell, in the order they were drawn.
DrawnBytes == WriteValues([k \in 1..Len(gen.draws) |-> gen.draws[k].val])

\* How many of the values of a raw file are the sentinel.
SentinelCount(content, size) ==
    Cardinality({k \in 1..(Len(content) \div size) :
                    SubSeq(content, (k - 1) * size + 1, k * size) = null_value(size)})

\* The unsigned number the three low bytes of val spell, and its span.
LowBytes(val) == val[1] + 256 * val[2] + 256 * 256 * val[3]

LowSpan == 256 * 256 * 256

\* val, read as a signed integer, lies strictly between -m and m.
StrictlyWithin(val, m) ==
    \/ /\ \A k \in 4..Len(val) : val[k] = 0
       /\ LowBytes(val) < m
    \/ /\ \A k \in 4..Len(val) : val[k] = 255
       /\ LowSpan - LowBytes(val) < m

GenReturnedOk == pc = "returned" /\ gen.result = "ok"

\* C11 (SpecGen): a raw file that exists when generate_random_column is
\* called holds the same bytes at every later point of the call.
C11_RawFileNotOverwritten ==
    gen.pre_raw.exists => fs.raw = gen.pre_raw

\* C12 (SpecGen): when generate_random_column(n, p) has returned Ok, the raw
\* file holds exactly n * value_width bytes and the returned Column's len()
\* is n.
C12_WritesExactlyN ==
    GenReturnedOk =>
        /\ Len(fs.raw.content) = gen.n * gen.size
        /\ ColumnLen(gen.column, gen.size) = gen.n

\* C13 (SpecGen): generate_random_column never aborts, and when creating,
\* writing, compressing or mapping has failed it returns an error and no
\* Column.
C13_IoFailuresSurfaced ==
    /\ pc # "panic"
    /\ (pc = "returned" /\ gen.failed) => gen.result = "err"

\* C14 (SpecGen): compression starts only after the loop has run n times and
\* the writer has been emptied and closed (so, unless a write to the file
\* failed, the raw file then holds every drawn value in order); the Column is
\* opened only after compression has completed, when the compressed file
\* decompresses to exactly the raw file, and the Column returned maps these
\* two files.
C14_WritePhaseOrdering ==
    /\ pc \in {"compress", "open"} =>
          /\ gen.i = gen.n
          /\ ~gen.writer_open
          /\ gen.writer = <<>>
          /\ ~gen.failed => fs.raw.content = DrawnBytes
    /\ pc = "open" =>
          /\ fs.compressed.exists
          /\ Decompress(fs.compressed.content) = fs.raw.content
    /\ GenReturnedOk =>
          /\ gen.column.raw_mmap = fs.raw.content
          /\ Decompress(gen.column.compressed_mmap) = gen.column.raw_mmap

C14_Witness ==
    /\ GenReturnedOk
    /\ gen.n >= 2
    /\ ~gen.failed
    /\ Len(gen.column.raw_mmap) = gen.n * gen.size
    /\ Len(gen.column.raw_mmap) % gen.frame_len # 0

\* C19 (SpecGen): every value drawn on the non-null branch lies strictly
\* between -modulus and modulus and so is not the sentinel, and when
\* generate_random_column has returned Ok the raw file holds as many
\* sentinels as there were draws on the null branch.
C19_SentinelsAreNullDraws ==
    /\ \A k \in 1..Len(gen.draws) :
          gen.draws[k].branch = "random" =>
              /\ StrictlyWithin(gen.draws[k].val, GenModulus(gen.size))
              /\ gen.draws[k].val # null_value(gen.size)
    /\ GenReturnedOk => SentinelCount(fs.raw.content, gen.size) = gen.null_draws

\* The first half of C19 alone: the non-null branch stays in range.
C19_RandomBranchInRange ==
    \A k \in 1..Len(gen.draws) :
        gen.draws[k].branch = "random" =>
            /\ StrictlyWithin(gen.draws[k].val, GenModulus(gen.size))
            /\ gen.draws[k].val # null_value(gen.size)

====
